---- MODULE Spec2Model ----
(***************************************************************************)
(* Briscola Online: the multiplayer game component GameApp of              *)
(* src/src/app/page.tsx (lines 523-680) and the card helpers it uses.      *)
(*                                                                         *)
(* The replicated state (useMultiplayerState, usePlayersList, isHost) is   *)
(* one shared store.  Every mounted client holds the values its last       *)
(* render read from that store (its closure); the handlers of a client     *)
(* read that closure and write the shared store.                           *)
(*                                                                         *)
(* Spec is a session of GameApp.  PureSpec calls the pure functions        *)
(* createDeck, shuffleDeck and the turn advance alone, on every input of   *)
(* a bounded set.                                                          *)
(***************************************************************************)
EXTENDS Integers, Sequences, FiniteSets, TLC

\* ------------------------------------------------------------------ bounds

\* Players in the session at one time.
MaxPlayers == 2

\* Clients that may open the session, one after the other.
MaxClients == 3

\* Longest playedCards array explored.
MaxPlays == 3

\* Random sources explored by the shuffle: seeds 0..MaxSeed.
MaxSeed == 1

\* Longest deck handed to shuffleDeck when it is called alone, and the number
\* of different cards such a deck is made of.
MaxDeck == 4

\* --------------------------------------------------------- card domain

\* enum Suit, in declaration order (Object.values order).
Suit == <<"club", "coin", "cup", "sword">>

\* enum CardValue, in declaration order (Object.values order).
CardValue == <<"1", "2", "3", "4", "5", "6", "7", "jack", "knight", "king">>

\* The score table with the 7 as the second highest card (worth 10) and the
\* 3 worth nothing, as in the games that rank the 7 above the king.
CardScoresSevenHigh(value) ==
    CASE value = "1" -> 11
      [] value = "7" -> 10
      [] value = "jack" -> 2
      [] value = "knight" -> 3
      [] value = "king" -> 4
      [] OTHER -> 0

CARD_SCORES(value) ==
    CASE value = "1" -> 11
      [] value = "2" -> 0
      [] value = "3" -> 10
      [] value = "4" -> 0
      [] value = "5" -> 0
      [] value = "6" -> 0
      [] value = "7" -> 0
      [] value = "jack" -> 2
      [] value = "knight" -> 3
      [] value = "king" -> 4

\* One Card object literal of createDeck (name and imagePath are display
\* strings derived from the same suit and value).
MakeCard(suit, value) ==
    [suit |-> suit, value |-> value, score |-> CARD_SCORES(value),
     id |-> suit \o "_" \o value]

\* The two loops exchanged: flatMap over the values of a map over the suits.
createDeckRankMajor ==
    [k \in 1..(Len(Suit) * Len(CardValue)) |->
        MakeCard(Suit[((k - 1) % Len(Suit)) + 1],
                 CardValue[((k - 1) \div Len(Suit)) + 1])]

\* flatMap over the suits of a map over the values: suit-major order.
createDeck ==
    [k \in 1..(Len(Suit) * Len(CardValue)) |->
        MakeCard(Suit[((k - 1) \div Len(CardValue)) + 1],
                 CardValue[((k - 1) % Len(CardValue)) + 1])]

\* trumpCard: null
NoCard == "null"

\* A Card object is immutable and determined by its id: the replicated state
\* is modelled as holding the ids, in the order of the objects.
CardIds(cards) == [k \in 1..Len(cards) |-> cards[k].id]

\* The swap written as two assignments without a temporary:
\* a[i] = a[j]; a[j] = a[i].
SwapWithoutTemp(a, i, j) ==
    [a EXCEPT ![i + 1] = a[j + 1]]

\* [a[i], a[j]] = [a[j], a[i]] on 0-based indices i, j.
Swap(a, i, j) ==
    [a EXCEPT ![i + 1] = a[j + 1], ![j + 1] = a[i + 1]]

\* The values Math.floor(Math.random() * (i + 1)) takes in one run of the
\* shuffle loop: rnd[i] \in 0..i for every loop index i.
RandomSource(seed, n) ==
    [i \in 1..(n - 1) |-> (seed * i) % (i + 1)]

RECURSIVE ShuffleLoop(_, _, _)
\* for (let i = shuffled.length - 1; i > 0; i--) { j = ...; swap(i, j) }
ShuffleLoop(shuffled, i, rnd) ==
    IF i > 0
    THEN ShuffleLoop(Swap(shuffled, i, rnd[i]), i - 1, rnd)
    ELSE shuffled

\* The shuffle with its loop started one index early:
\* for (let i = shuffled.length - 2; ...).
shuffleDeckFromSecondLast(deck, rnd) ==
    ShuffleLoop(deck, Len(deck) - 2, rnd)

shuffleDeck(deck, rnd) ==
    ShuffleLoop(deck, Len(deck) - 1, rnd)

\* The trump card read from the top of the array: newDeck[0].
FirstCard(deck) == deck[1]

\* Array.prototype.pop: the removed last element and the array left.
PopCard(deck) == deck[Len(deck)]

PopRest(deck) == SubSeq(deck, 1, Len(deck) - 1)

\* ------------------------------------------------------------ the state

\* The clients (player ids) that may take part.
Clients == 1..MaxClients

\* The card a PlayCard command names: the first card of the mock hand
\* (handleCardPlay never inspects the card it is given).
CommandCards == {createDeck[1].id}

VARIABLES
    players,        \* usePlayersList(): the roster, in join order
    host,           \* the client for which isHost() is true, 0 when none
    playedCards,    \* useMultiplayerState("playedCards", [])
    currentTurn,    \* useMultiplayerState("currentTurn", 0)
    gameState,      \* useMultiplayerState("gameState", {...})
    view,           \* per client: the values its last render read
    timer,          \* per client: the 1000 ms start timer is pending
    pc,             \* per client: position inside initializeGame
    notification,   \* the latest showNotification call
    left,           \* the clients that closed their page
    call            \* a call of a pure function made outside a session

vars == <<players, host, playedCards, currentTurn, gameState, view, timer, pc,
          notification, left, call>>

\* The variables of one session of GameApp.
session == <<players, host, playedCards, currentTurn, gameState, view, timer,
             pc, notification, left>>

shared == <<players, host, playedCards, currentTurn, gameState>>

NoHost == 0

\* The default value of the "gameState" multiplayer state.
InitialGameState ==
    [deck |-> <<>>, trumpCard |-> NoCard, gameStarted |-> FALSE,
     isShuffling |-> FALSE]

\* What a client that is not mounted holds.
NoView ==
    [players |-> <<>>, playedCards |-> <<>>, currentTurn |-> 0,
     gameState |-> InitialGameState, isGameHost |-> FALSE]

\* No pure function is being called alone.
NoCall ==
    [fn |-> "none", deck |-> <<>>, rnd |-> <<>>, result |-> <<>>,
     size |-> 0, start |-> 0, cursor |-> 0, count |-> 0, returned |-> FALSE]

Range(s) == {s[k] : k \in 1..Len(s)}

\* players.findIndex(p => p.id === id): 0-based, -1 when absent.
FindIndex(roster, id) ==
    IF id \in Range(roster)
    THEN (CHOOSE k \in 1..Len(roster) : roster[k] = id) - 1
    ELSE -1

\* The roster without the client that quit, order kept.
RemovePlayer(roster, id) ==
    SelectSeq(roster, LAMBDA q : q # id)

\* One render of GameApp by client p: the hook values it reads.
Snapshot(p, ps, h, pcs, ct, gs) ==
    [players |-> ps, playedCards |-> pcs, currentTurn |-> ct,
     gameState |-> gs, isGameHost |-> (h = p)]

currentPlayerIndex(p) == FindIndex(view[p].players, p)

isMyTurn(p) == currentPlayerIndex(p) = view[p].currentTurn

\* The mock hand: the first three cards of a fresh deck once started.
playerHand(p) ==
    IF view[p].gameState.gameStarted
    THEN CardIds(<<createDeck[1], createDeck[2], createDeck[3]>>)
    ELSE <<>>

\* The condition of the start effect without its isShuffling test.
StartConditionWithoutShuffling(v) ==
    /\ v.isGameHost
    /\ Len(v.players) >= 2
    /\ ~v.gameState.gameStarted

\* The condition of the start effect, on the values of one render.
StartCondition(v) ==
    /\ v.isGameHost
    /\ Len(v.players) >= 2
    /\ ~v.gameState.gameStarted
    /\ ~v.gameState.isShuffling

\* The dependency array of the start effect changed between two renders.
StartDepsChanged(old, new) ==
    \/ old.isGameHost # new.isGameHost
    \/ Len(old.players) # Len(new.players)
    \/ old.gameState # new.gameState

Init ==
    /\ players = <<>>
    /\ host = NoHost
    /\ playedCards = <<>>
    /\ currentTurn = 0
    /\ gameState = InitialGameState
    /\ view = [p \in Clients |-> NoView]
    /\ timer = [p \in Clients |-> FALSE]
    /\ pc = [p \in Clients |-> "idle"]
    /\ notification = [client |-> 0, message |-> "", timestamp |-> 0]
    /\ left = {}
    /\ call = NoCall

\* ---------------------------------------------------------- the actions

\* showNotification(message): the call is recorded with the client whose
\* handler makes it (for the join and quit announcements, the client they
\* name); timestamp: Date.now() differs from the one of the call before,
\* which is all that is kept of it.
Notify(p, message) ==
    notification' = [client |-> p, message |-> message,
                     timestamp |-> 1 - notification.timestamp]

\* The start effect after a render of client p: when its dependencies
\* changed, the cleanup clears the pending timer and the effect arms a new
\* one under StartCondition; otherwise the pending timer is kept.
StartEffect(p, old, new) ==
    IF StartDepsChanged(old, new) THEN StartCondition(new) ELSE timer[p]

\* A client opens the session: it is appended to the roster, becomes host
\* when there is none, mounts GameApp and renders for the first time.
\* The onPlayerJoin callback announces it.  A client id joins once: whoever
\* comes back after leaving is another client, and the clients are numbered
\* in the order in which they open the session.
Join(p) ==
    /\ p \notin Range(players)
    /\ p \notin left
    /\ p = Cardinality(Range(players) \cup left) + 1
    /\ Len(players) < MaxPlayers
    /\ players' = Append(players, p)
    /\ host' = IF host = NoHost THEN p ELSE host
    /\ view' = [view EXCEPT
                  ![p] = Snapshot(p, players', host', playedCards, currentTurn,
                                  gameState)]
    /\ timer' = [timer EXCEPT ![p] = StartCondition(view'[p])]
    /\ Notify(p, "joined")
    /\ UNCHANGED <<playedCards, currentTurn, gameState, pc, left, call>>

\* A client leaves: it is removed from the roster, its timers and its pending
\* initializeGame end with its page, and when it was host the role moves to
\* one of the clients left.  The onQuit callback announces it.
Quit(p) ==
    /\ p \in Range(players)
    /\ players' = RemovePlayer(players, p)
    /\ \E h \in Clients \cup {NoHost} :
          /\ IF host # p THEN h = host
             ELSE IF players' = <<>> THEN h = NoHost
             ELSE h \in Range(players')
          /\ host' = h
    /\ view' = [view EXCEPT ![p] = NoView]
    /\ timer' = [timer EXCEPT ![p] = FALSE]
    /\ pc' = [pc EXCEPT ![p] = "idle"]
    /\ Notify(p, "left")
    /\ left' = left \cup {p}
    /\ UNCHANGED <<playedCards, currentTurn, gameState, call>>

\* Client p renders again: its closures now hold the current hook values,
\* and the start effect runs on them.
Render(p) ==
    /\ p \in Range(players)
    /\ view[p] # Snapshot(p, players, host, playedCards, currentTurn, gameState)
    /\ view' = [view EXCEPT
                  ![p] = Snapshot(p, players, host, playedCards, currentTurn,
                                  gameState)]
    /\ timer' = [timer EXCEPT ![p] = StartEffect(p, view[p], view'[p])]
    /\ UNCHANGED <<players, host, playedCards, currentTurn, gameState, pc,
                   notification, left, call>>

\* The guard of initializeGame on the closure of client p.
InitGuard(p) ==
    view[p].isGameHost /\ ~view[p].gameState.gameStarted

\* The start timer of client p fires and calls initializeGame, which runs up
\* to its await: guard, notification, setGameState({...gameState,
\* isShuffling: true}).  (No timer is ever pending while an initializeGame of
\* the same client sleeps, so pc[p] holds one position.)
initializeGameBegin(p) ==
    /\ timer[p]
    /\ pc[p] = "idle"
    /\ timer' = [timer EXCEPT ![p] = FALSE]
    /\ IF InitGuard(p)
       THEN /\ gameState' = [view[p].gameState EXCEPT !.isShuffling = TRUE]
            /\ pc' = [pc EXCEPT ![p] = "sleep"]
            /\ Notify(p, "shuffling")
       ELSE UNCHANGED <<gameState, pc, notification>>
    /\ UNCHANGED <<players, host, playedCards, currentTurn, view, left, call>>

\* The state initializeGame writes after the shuffle, for one random source.
StartedGameState(rnd) ==
    LET newDeck == shuffleDeck(createDeck, rnd)
    IN  [deck |-> CardIds(PopRest(newDeck)), trumpCard |-> PopCard(newDeck).id,
         gameStarted |-> TRUE, isShuffling |-> FALSE]

\* The states initializeGame can write after the shuffle: one for every
\* random source explored.
StartedGameStates ==
    {StartedGameState(RandomSource(seed, Len(createDeck))) : seed \in 0..MaxSeed}

\* initializeGame of client p resumes after sleep(2000): shuffle, pop the
\* trump card, setGameState, notification.
initializeGameEnd(p) ==
    /\ pc[p] = "sleep"
    /\ \E started \in StartedGameStates : gameState' = started
    /\ pc' = [pc EXCEPT ![p] = "idle"]
    /\ Notify(p, "started")
    /\ UNCHANGED <<players, host, playedCards, currentTurn, view, timer, left,
                   call>>

\* handleCardPlay with the gameStarted test of its guard left out.
PlayGuardWithoutStarted(p) ==
    isMyTurn(p)

\* The guard of handleCardPlay on the closure of client p
\* (currentPlayer is myPlayer(), defined for every mounted client).
PlayGuard(p) ==
    isMyTurn(p) /\ view[p].gameState.gameStarted

\* The advance without its wrap-around: currentTurn + 1.
advanceWithoutWrap(turn, size) ==
    turn + 1

\* (currentTurn + 1) % players.length
advance(turn, size) ==
    (turn + 1) % size

\* (currentTurn + 1) % players.length on the closure of client p.
NextTurn(p) ==
    advance(view[p].currentTurn, Len(view[p].players))

\* handleCardPlay(card) of client p.
handleCardPlay(p, card) ==
    /\ p \in Range(players)
    /\ IF ~PlayGuard(p)
       THEN /\ Notify(p, "rejected")
            /\ UNCHANGED <<playedCards, currentTurn>>
       ELSE /\ Len(view[p].playedCards) < MaxPlays
            /\ playedCards' =
                  Append(view[p].playedCards, [card |-> card, playerId |-> p])
            /\ currentTurn' = NextTurn(p)
            /\ Notify(p, "played")
    /\ UNCHANGED <<players, host, gameState, view, timer, pc, left, call>>

Next ==
    \/ \E p \in Clients : Join(p)
    \/ \E p \in Clients : Quit(p)
    \/ \E p \in Clients : Render(p)
    \/ \E p \in Clients : initializeGameBegin(p)
    \/ \E p \in Clients : initializeGameEnd(p)
    \/ \E p \in Clients, card \in CommandCards : handleCardPlay(p, card)

Spec == Init /\ [][Next]_vars

\* What the scheduling of a running page guarantees: a client whose hook
\* values changed renders again, a pending setTimeout(..., 1000) fires, and
\* an initializeGame waiting in sleep(2000) resumes.  Joining, quitting and
\* playing a card are up to the users.
Fairness ==
    \A p \in Clients :
        /\ WF_vars(Render(p))
        /\ WF_vars(initializeGameBegin(p))
        /\ WF_vars(initializeGameEnd(p))

FairSpec == Spec /\ Fairness

\* ------------------------------------- the pure functions, called alone

\* The smallest roster a game starts with (players.length >= 2).
MinRoster == 2

\* The largest roster of a session ("Players (n/4)").
MaxRoster == 4

\* The values Math.floor(Math.random() * (i + 1)) can take over one run of
\* the shuffle loop on a deck of n cards: any j in 0..i at every index i.
Draws(n) ==
    {r \in [1..(n - 1) -> 0..(n - 1)] : \A i \in 1..(n - 1) : r[i] <= i}

\* The decks handed to shuffleDeck: every array of at most MaxDeck cards
\* taken from the first MaxDeck cards of createDeck, repeats included.
ShuffleInputs ==
    UNION {[1..n -> {createDeck[k] : k \in 1..MaxDeck}] : n \in 0..MaxDeck}

\* The calls explored: createDeck(), shuffleDeck(deck) for every input deck,
\* and the turn advance from every cursor of every roster size.
PureInit ==
    /\ players = <<>>
    /\ host = NoHost
    /\ playedCards = <<>>
    /\ currentTurn = 0
    /\ gameState = InitialGameState
    /\ view = [p \in Clients |-> NoView]
    /\ timer = [p \in Clients |-> FALSE]
    /\ pc = [p \in Clients |-> "idle"]
    /\ notification = [client |-> 0, message |-> "", timestamp |-> 0]
    /\ left = {}
    /\ \/ call = [NoCall EXCEPT !.fn = "createDeck"]
       \/ \E deck \in ShuffleInputs :
             call = [NoCall EXCEPT !.fn = "shuffleDeck", !.deck = deck]
       \/ \E size \in MinRoster..MaxRoster, start \in 0..(MaxRoster - 1) :
             /\ start < size
             /\ call = [NoCall EXCEPT !.fn = "advance", !.size = size,
                                      !.start = start, !.cursor = start]

\* createDeck() returns.
CallCreateDeck ==
    /\ call.fn = "createDeck"
    /\ ~call.returned
    /\ call' = [call EXCEPT !.result = createDeck, !.returned = TRUE]
    /\ UNCHANGED session

\* shuffleDeck(deck) returns, for one outcome of its Math.random() calls.
CallShuffleDeck ==
    /\ call.fn = "shuffleDeck"
    /\ ~call.returned
    /\ \E rnd \in Draws(Len(call.deck)) :
          call' = [call EXCEPT !.rnd = rnd,
                               !.result = shuffleDeck(call.deck, rnd),
                               !.returned = TRUE]
    /\ UNCHANGED session

\* The turn advance is applied once more to the cursor, the roster being
\* fixed, until it was applied as often as the roster has players.
CallAdvance ==
    /\ call.fn = "advance"
    /\ call.count < call.size
    /\ call' = [call EXCEPT !.cursor = advance(call.cursor, call.size),
                            !.count = call.count + 1,
                            !.returned = TRUE]
    /\ UNCHANGED session

PureNext ==
    \/ CallCreateDeck
    \/ CallShuffleDeck
    \/ CallAdvance

PureSpec == PureInit /\ [][PureNext]_vars

\* ------------------------------------------------- vocabulary of the claims

\* The ids of the 40 cards createDeck builds.
AllCardIds == Range(CardIds(createDeck))

\* How often id occurs in the sequence s.
CountIn(s, id) == Cardinality({k \in 1..Len(s) : s[k] = id})

\* The cards of the played pile, in play order.
PlayedIds == [k \in 1..Len(playedCards) |-> playedCards[k].card]

\* The players of the played pile, in play order.
PlayedBy == [k \in 1..Len(playedCards) |-> playedCards[k].playerId]

RECURSIVE CountInHands(_, _)
\* How often id occurs in the hands of the clients of the set ps.
CountInHands(ps, id) ==
    IF ps = {} THEN 0
    ELSE LET p == CHOOSE q \in ps : TRUE
         IN  CountIn(playerHand(p), id) + CountInHands(ps \ {p}, id)

\* How often id occurs across the deck, the trump card, the hands of the
\* players and the played pile.
Occurrences(id) ==
    CountIn(gameState.deck, id)
    + (IF gameState.trumpCard = id THEN 1 ELSE 0)
    + CountInHands(Range(players), id)
    + CountIn(PlayedIds, id)

\* The step is a call of handleCardPlay by client p that was accepted.
AcceptedPlay(p, card) ==
    handleCardPlay(p, card) /\ notification'.message = "played"

\* Client p is the one the shared turn cursor points at in the shared roster.
OnTurn(p) == FindIndex(players, p) = currentTurn

\* The closures of client p hold the current values: it rendered since the
\* last change.
UpToDate(p) ==
    view[p] = Snapshot(p, players, host, playedCards, currentTurn, gameState)

\* ----------------------------------------------------------------- C1
\* C1: once the game has started, every one of the 40 card ids of createDeck
\* occurs exactly once across the deck, the trump card, the players' hands
\* and the played pile, and no other id occurs there.
C1_CardsConserved ==
    gameState.gameStarted =>
        /\ \A id \in AllCardIds : Occurrences(id) = 1
        /\ Range(gameState.deck) \cup {gameState.trumpCard}
             \cup Range(PlayedIds) \subseteq AllCardIds

\* ----------------------------------------------------------------- C2
\* C2: a handleCardPlay call by a player whose index in the roster is not
\* the turn cursor is rejected, and the rejection leaves the roster, the
\* played cards, the turn cursor and the game state as they were.
C2_OffTurnRejected ==
    [][\A p \in Clients, card \in CommandCards :
          (handleCardPlay(p, card) /\ ~OnTurn(p)) =>
              (notification'.message = "rejected" /\ UNCHANGED shared)]_vars

\* ----------------------------------------------------------------- C3
\* C3: a handleCardPlay call by the player on turn that names a card the
\* player does not hold (it is not in the hand, or this player has played
\* it already) is rejected and the card is not added to the played pile.
\* Stated for calls made from up-to-date closures in a session nobody left.
C3_CardNotInHandRejected ==
    [][\A p \in Clients, card \in CommandCards :
          (/\ handleCardPlay(p, card)
           /\ OnTurn(p)
           /\ UpToDate(p)
           /\ left = {}
           /\ \/ CountIn(playerHand(p), card) = 0
              \/ \E k \in 1..Len(playedCards) :
                    playedCards[k] = [card |-> card, playerId |-> p]) =>
              (notification'.message = "rejected"
               /\ playedCards' = playedCards)]_vars

\* ----------------------------------------------------------------- C4
\* C4: submissions for one turn are serialized.  Every accepted play adds
\* exactly its own entry to the played pile as it stands (no entry is lost
\* or overwritten), and a submission computed from a snapshot of the played
\* pile or the turn cursor that is no longer current is rejected.
C4_PlaysSerialized ==
    [][\A p \in Clients, card \in CommandCards :
          /\ AcceptedPlay(p, card) =>
                playedCards' =
                    Append(playedCards, [card |-> card, playerId |-> p])
          /\ (/\ handleCardPlay(p, card)
              /\ \/ view[p].playedCards # playedCards
                 \/ view[p].currentTurn # currentTurn) =>
                notification'.message = "rejected"]_vars

\* ----------------------------------------------------------------- C5
\* C5: every accepted play moves the turn cursor from its current value to
\* (currentTurn + 1) mod the size of the roster.  Stated for plays of clients
\* whose closure holds the current roster.
C5_TurnAdvancesByOne ==
    [][\A p \in Clients, card \in CommandCards :
          (AcceptedPlay(p, card) /\ view[p].players = players) =>
              currentTurn' = (currentTurn + 1) % Len(players)]_vars

\* ----------------------------------------------------------------- C6
\* C6: an accepted play moves the card from the hand of the player to the
\* played pile: afterwards the card is in the pile, is not in the hand of
\* that player, and the hand is one card shorter.
C6_CardLeavesHand ==
    [][\A p \in Clients, card \in CommandCards :
          AcceptedPlay(p, card) =>
              /\ CountIn(PlayedIds', card) > 0
              /\ CountIn(playerHand(p)', card) = 0
              /\ Len(playerHand(p)') = Len(playerHand(p)) - 1]_vars

\* ----------------------------------------------------------------- C7
\* C7: the played pile never holds more entries than the roster has players
\* and never two entries of one player.  Stated for sessions nobody left.
C7_TrickBounded ==
    left = {} =>
        /\ Len(playedCards) <= Len(players)
        /\ \A i, j \in 1..Len(playedCards) :
              i # j => PlayedBy[i] # PlayedBy[j]

\* ----------------------------------------------------------------- C8
\* C8: while gameStarted is false every handleCardPlay call is rejected, no
\* card is added to the played pile and the turn cursor does not move,
\* whoever the turn cursor points at.
C8_NoPlayBeforeStart ==
    [][~gameState.gameStarted =>
          /\ playedCards' = playedCards
          /\ currentTurn' = currentTurn
          /\ \A p \in Clients, card \in CommandCards :
                handleCardPlay(p, card) =>
                    notification'.message = "rejected"]_vars

\* A play of the player the turn cursor points at was rejected before the
\* game started, in a roster of two.
C8_Witness ==
    /\ ~gameState.gameStarted
    /\ Len(players) >= 2
    /\ notification.message = "rejected"
    /\ OnTurn(notification.client)
    /\ playedCards = <<>>

\* ----------------------------------------------------------------- C9
\* C9: gameStarted becomes true only while the roster holds at least two
\* players.
C9_StartNeedsTwoPlayers ==
    [][(~gameState.gameStarted /\ gameState'.gameStarted) =>
          Len(players) >= 2]_vars

\* ---------------------------------------------------------------- C10
\* C10: every player that sees the game started holds exactly three cards,
\* none of them still in the deck and none of them in the hand of another
\* player.
C10_HandsDealtFromDeck ==
    \A p \in Range(players) :
        view[p].gameState.gameStarted =>
            /\ Len(playerHand(p)) = 3
            /\ Range(playerHand(p)) \cap Range(gameState.deck) = {}
            /\ \A q \in Range(players) \ {p} :
                  Range(playerHand(p)) \cap Range(playerHand(q)) = {}

\* ---------------------------------------------------------------- C11
\* The array of cards has no card twice.
DistinctCards(deck) ==
    \A i, j \in 1..Len(deck) : i # j => deck[i].id # deck[j].id

\* shuffleDeck was called alone and has returned.
ShuffleReturned == call.fn = "shuffleDeck" /\ call.returned

\* C11: whatever the input deck and whatever the random draws, the array
\* shuffleDeck returns has the length of its input and holds every card id
\* exactly as often as the input does: no card is dropped or duplicated.
C11_ShuffleIsPermutation ==
    ShuffleReturned =>
        /\ Len(call.result) = Len(call.deck)
        /\ \A id \in Range(CardIds(call.deck)) \cup Range(CardIds(call.result)) :
              CountIn(CardIds(call.result), id) = CountIn(CardIds(call.deck), id)

\* A deck of MaxDeck cards, one of them twice, came back in another order.
C11_Witness ==
    /\ ShuffleReturned
    /\ Len(call.deck) = MaxDeck
    /\ ~DistinctCards(call.deck)
    /\ Cardinality(Range(call.deck)) = MaxDeck - 1
    /\ call.result # call.deck

\* ---------------------------------------------------------------- C12
RECURSIVE Factorial(_)
Factorial(n) == IF n <= 1 THEN 1 ELSE n * Factorial(n - 1)

\* C12: for a deck of n different cards there are n! sequences of draws
\* (j in 0..i at every index i from the last down to 1), they produce n!
\* pairwise different orders, and the order a call returned is produced by
\* the draws of that call alone.
C12_ShuffleUnbiased ==
    (ShuffleReturned /\ DistinctCards(call.deck)) =>
        LET n == Len(call.deck)
        IN  /\ Cardinality(Draws(n)) = Factorial(n)
            /\ Cardinality({shuffleDeck(call.deck, r) : r \in Draws(n)})
                  = Factorial(n)
            /\ \A r \in Draws(n) :
                  shuffleDeck(call.deck, r) = call.result => r = call.rnd

\* A deck of MaxDeck different cards came back reversed.
C12_Witness ==
    /\ ShuffleReturned
    /\ DistinctCards(call.deck)
    /\ Len(call.deck) = MaxDeck
    /\ \A k \in 1..MaxDeck : call.result[k] = call.deck[MaxDeck + 1 - k]

\* ---------------------------------------------------------------- C13
\* createDeck was called alone and has returned.
CreateDeckReturned == call.fn = "createDeck" /\ call.returned

\* The place of x in the sequence s.
IndexIn(s, x) == CHOOSE k \in 1..Len(s) : s[k] = x

\* Card a comes before card b in suit-major, then rank-major order.
CanonicallyBefore(a, b) ==
    \/ IndexIn(Suit, a.suit) < IndexIn(Suit, b.suit)
    \/ /\ a.suit = b.suit
       /\ IndexIn(CardValue, a.value) < IndexIn(CardValue, b.value)

\* C13: createDeck returns exactly 40 cards, one for each pair of the 4
\* suits and the 10 ranks, with pairwise different ids of the form
\* suit_rank, in suit-major then rank-major order.  That order admits one
\* array only, so every call returns the same one.
C13_DeckIsCanonical ==
    CreateDeckReturned =>
        LET deck == call.result
        IN  /\ Len(deck) = 40
            /\ Cardinality(Range(Suit)) = 4
            /\ Cardinality(Range(CardValue)) = 10
            /\ \A suit \in Range(Suit), value \in Range(CardValue) :
                  Cardinality({k \in 1..Len(deck) :
                                 deck[k].suit = suit /\ deck[k].value = value})
                    = 1
            /\ DistinctCards(deck)
            /\ \A k \in 1..Len(deck) :
                  deck[k].id = deck[k].suit \o "_" \o deck[k].value
            /\ \A i, j \in 1..Len(deck) :
                  i < j => CanonicallyBefore(deck[i], deck[j])

\* The call returned a deck from the ace of clubs to the king of swords.
C13_Witness ==
    /\ CreateDeckReturned
    /\ call.result[1].id = "club_1"
    /\ call.result[Len(call.result)].id = "sword_king"

\* ---------------------------------------------------------------- C14
RECURSIVE SumScores(_)
\* The sum of the score attribute over an array of cards.
SumScores(cards) ==
    IF cards = <<>> THEN 0
    ELSE Head(cards).score + SumScores(Tail(cards))

\* C14: the scores of a freshly built deck add up to 120, 30 in each of the
\* 4 suits; the ranks 1, 3, king, knight and jack are worth 11, 10, 4, 3
\* and 2, every other rank 0.
C14_DeckWorth120 ==
    CreateDeckReturned =>
        /\ SumScores(call.result) = 120
        /\ \A suit \in Range(Suit) :
              SumScores(SelectSeq(call.result, LAMBDA c : c.suit = suit)) = 30
        /\ \A k \in 1..Len(call.result) :
              call.result[k].score =
                  CASE call.result[k].value = "1" -> 11
                    [] call.result[k].value = "3" -> 10
                    [] call.result[k].value = "king" -> 4
                    [] call.result[k].value = "knight" -> 3
                    [] call.result[k].value = "jack" -> 2
                    [] OTHER -> 0

\* The call returned a deck with scoring and worthless cards in every suit.
C14_Witness ==
    /\ CreateDeckReturned
    /\ \A suit \in Range(Suit) :
          /\ \E k \in 1..Len(call.result) :
                call.result[k].suit = suit /\ call.result[k].score > 0
          /\ \E k \in 1..Len(call.result) :
                call.result[k].suit = suit /\ call.result[k].score = 0

\* ---------------------------------------------------------------- C16
RECURSIVE CardsInHands(_)
\* The number of cards in the hands of the clients of the set ps.
CardsInHands(ps) ==
    IF ps = {} THEN 0
    ELSE LET p == CHOOSE q \in ps : TRUE
         IN  Len(playerHand(p)) + CardsInHands(ps \ {p})

\* The cards still to be played: those of the deck and of the hands.
CardsLeft == Len(gameState.deck) + CardsInHands(Range(players))

\* The end of the game: started, the deck empty and every hand empty.
GameEnd == gameState.gameStarted /\ CardsLeft = 0

\* C16: a game ends and stays ended.  Every accepted play uses up one of
\* the cards still to be played, so that no sequence of accepted plays is
\* longer than the cards last; once the deck and all hands are empty the
\* game has ended, it stays ended, and no play is accepted any more.
C16_GameEnds ==
    [][/\ \A p \in Clients, card \in CommandCards :
             AcceptedPlay(p, card) => (~GameEnd /\ CardsLeft' < CardsLeft)
       /\ GameEnd => GameEnd']_vars

\* ---------------------------------------------------------------- C17
\* C17: once the game has started it stays started, and no step (a play, a
\* join, a quit, a render, a start timer, an initializeGame) changes
\* gameState.trumpCard or gameState.deck.
C17_TrumpFixed ==
    [][gameState.gameStarted =>
          /\ gameState'.gameStarted
          /\ gameState'.trumpCard = gameState.trumpCard
          /\ gameState'.deck = gameState.deck]_vars

\* A started game in which cards were played and a player left, the trump
\* card and the 39 cards of the deck in place.
C17_Witness ==
    /\ gameState.gameStarted
    /\ gameState.trumpCard \in AllCardIds
    /\ Len(gameState.deck) = 39
    /\ Len(playedCards) >= 2
    /\ left # {}

\* ---------------------------------------------------------------- C18
\* The turn advance was applied, alone, as often as the roster has players.
AdvancedAround == call.fn = "advance" /\ call.count = call.size

\* C18: for every roster size from 2 to 4 and every cursor from 0 to the
\* roster size minus 1, the roster staying as it is, applying the turn
\* advance as often as the roster has players brings the cursor back to
\* the value it started from.
C18_AdvanceReturns ==
    AdvancedAround => call.cursor = call.start

\* The advance went around the largest roster from its last index.
C18_Witness ==
    /\ AdvancedAround
    /\ call.size = MaxRoster
    /\ call.start = MaxRoster - 1
    /\ call.cursor = call.start

\* ---------------------------------------------------------------- C19
\* C19: the turn cursor changes only in a step that is a committed legal
\* play: an accepted handleCardPlay call of the player the cursor points
\* at, in a started game.  No other step (initialisation, a rejected play,
\* a join, a quit, a render) changes it.
C19_CursorOnlyOnLegalPlay ==
    [][currentTurn' # currentTurn =>
          \E p \in Clients, card \in CommandCards :
              /\ AcceptedPlay(p, card)
              /\ OnTurn(p)
              /\ gameState.gameStarted]_vars

\* ---------------------------------------------------------------- C20
\* The orders shuffleDeck(createDeck()) can return, as card ids.
ShuffledOrders ==
    {CardIds(shuffleDeck(createDeck, RandomSource(seed, Len(createDeck)))) :
        seed \in 0..MaxSeed}

\* C20: in a started game the trump card is the last card of the shuffled
\* order of the 40 cards, the deck is the 39 cards before it in that order,
\* and the trump card is not in the deck.
C20_TrumpIsBottomCard ==
    gameState.gameStarted =>
        /\ \E shuffled \in ShuffledOrders :
              /\ Len(shuffled) = 40
              /\ Range(shuffled) = AllCardIds
              /\ gameState.trumpCard = shuffled[40]
              /\ gameState.deck = SubSeq(shuffled, 1, 39)
        /\ gameState.trumpCard \notin Range(gameState.deck)
        /\ Range(gameState.deck) \cup {gameState.trumpCard} = AllCardIds

\* A game started on a deck the shuffle reordered: the trump card is not
\* the last card of createDeck and the deck does not begin with its first.
C20_Witness ==
    /\ gameState.gameStarted
    /\ gameState.trumpCard # CardIds(createDeck)[Len(createDeck)]
    /\ gameState.deck[1] # CardIds(createDeck)[1]
    /\ Len(gameState.deck) = 39

\* ---------------------------------------------------------------- C21
\* C21: in a started game with players in it, the turn cursor is an index
\* of the roster (0 <= currentTurn < number of players) and exactly one
\* player of the roster is on turn, also after players joined or quit.
C21_CursorValid ==
    (gameState.gameStarted /\ players # <<>>) =>
        /\ 0 <= currentTurn
        /\ currentTurn < Len(players)
        /\ Cardinality({p \in Range(players) : OnTurn(p)}) = 1

\* ---------------------------------------------------------------- C22
\* C22: initialisation is the host's and takes effect at most once.
\* gameState is written only by an initializeGame of the client that is
\* host; an initializeGame called by a client that is not host, or once the
\* game has started, changes nothing of the shared state; one that takes
\* effect does so while the game is neither started nor being shuffled and
\* no other initializeGame is under way, and it completes on a game that
\* has no trump card yet: no second deck or trump card is ever written.
C22_InitialisedOnceByHost ==
    [][/\ gameState' # gameState =>
             \E p \in Clients :
                 /\ host = p
                 /\ initializeGameBegin(p) \/ initializeGameEnd(p)
       /\ \A p \in Clients :
             /\ (initializeGameBegin(p)
                    /\ (host # p \/ gameState.gameStarted)) =>
                   UNCHANGED shared
             /\ (initializeGameBegin(p) /\ gameState' # gameState) =>
                   /\ ~gameState.gameStarted
                   /\ ~gameState.isShuffling
                   /\ \A q \in Clients : pc[q] = "idle"
             /\ initializeGameEnd(p) =>
                   /\ ~gameState.gameStarted
                   /\ gameState.trumpCard = NoCard
                   /\ gameState.deck = <<>>]_vars

\* The first host left before it initialised the game, and the client the
\* host role moved to has initialised it.
C22_Witness ==
    /\ gameState.gameStarted
    /\ 1 \in left
    /\ host # NoHost
    /\ notification = [client |-> host, message |-> "started",
                       timestamp |-> notification.timestamp]
    /\ Len(players) >= 2

\* ---------------------------------------------------------------- C23
\* C23: if from some time on at least 2 players are in the session and one
\* of them is host, the game eventually is started with isShuffling false
\* again, and the session does not stay for ever with gameStarted false
\* and isShuffling true; the host role may move while the shuffle waits.
C23_GameEventuallyStarts ==
    <>[](Len(players) >= 2 /\ host # NoHost) =>
        /\ <>(gameState.gameStarted /\ ~gameState.isShuffling)
        /\ ~<>[](~gameState.gameStarted /\ gameState.isShuffling)

====
